---- MODULE Spec2Model ----
(***************************************************************************)
(* Booking availability and pricing engine of the PMS (pms/views.py,       *)
(* pms/forms.py).  The stored bookings, the two pure functions             *)
(* check_room_availability and calculate_booking_total, and the views that *)
(* write bookings: BookingView.post, DeleteBookingView.post and            *)
(* EditBookingDatesView.post.  A date-edit request is split at its         *)
(* database accesses (load, availability query, save), so that requests    *)
(* of different workers interleave as they do in a deployment.             *)
(***************************************************************************)
EXTENDS Integers, Sequences, FiniteSets, TLC

\* ------------------------------------------------------------------ bounds
MaxDate == 2          \* days are 0..MaxDate
MaxBookings == 2      \* booking ids are 1..MaxBookings
NumRooms == 2         \* rooms of the tables the pure functions are called on
HotelRooms == 1       \* rooms of the hotel whose requests are interleaved
MaxProcs == 2         \* concurrent date-edit requests
MaxPrice == 2         \* nightly prices of a room type are -1..MaxPrice
MaxGuests == 2        \* guests of a search and max_guests of a room type are 1..MaxGuests

\* ------------------------------------------------------- program constants
DefaultPrice == 100   \* views.py:56, the default price per night
ExceptPrice == 100    \* views.py:59, the rate of the except branch

Dates == 0..MaxDate
Ids == 1..MaxBookings
Rooms == 1..NumRooms
Procs == 1..MaxProcs
Prices == (-1)..MaxPrice

NoBooking == [none |-> "booking"]
NoId == -1                       \* Python's None as exclude_booking_id
NoDate == -1                     \* Python's None as a date
NoReq == [none |-> "request"]
NoCall == [none |-> "call"]
NoRoom == 0                      \* a room id no Room row has

States == {"NEW", "DEL"}
PostedTotals == {0}

VARIABLES
    bookings,   \* the Booking table: id -> row, or NoBooking
    rooms,      \* the Room table with its room type: room id -> pricing record
    pc,         \* per worker: where its date-edit request stands, or its response
    req,        \* per worker: the request's pk, cleaned dates and loaded instance
    call        \* the last direct call of one of the two pure functions

vars == <<bookings, rooms, pc, req, call>>

\* ------------------------------------------------------------- the tables
Exists(bks, i) == i \in Ids /\ bks[i] # NoBooking

\* The room table: what hasattr / room_type / price give for a room.
PricingKinds ==
    {[kind |-> k] : k \in {"no_room_type_attr", "room_type_none", "no_price_attr",
                           "price_raises_attr", "price_none", "price_raises_type"}}
    \cup {[kind |-> "price", price |-> p] : p \in Prices}

\* Room 1 is the room of the test fixture, created without a room type.
InitialRooms ==
    [r \in 1..HotelRooms |-> IF r = 1 THEN [kind |-> "room_type_none"]
                                      ELSE [kind |-> "price", price |-> MaxPrice]]

\* ------------------------------------------------- check_room_availability
\* FilterRoomNew without room=room
FilterNewAnyRoom(bks, room) ==
    {i \in Ids : bks[i] # NoBooking /\ bks[i].state = "NEW"}

\* Booking.objects.filter(room=room, state="NEW")
FilterRoomNew(bks, room) ==
    {i \in Ids : bks[i] # NoBooking /\ bks[i].room = room /\ bks[i].state = "NEW"}

\* ExcludeBooking that leaves the edited booking in
ExcludeNothing(ids, exclude_booking_id) == ids

\* if exclude_booking_id: existing_bookings.exclude(id=exclude_booking_id)
\* (None and 0 are falsy)
ExcludeBooking(ids, exclude_booking_id) ==
    IF exclude_booking_id # NoId /\ exclude_booking_id # 0
    THEN ids \ {exclude_booking_id}
    ELSE ids

\* existing_bookings without state="NEW"
existing_bookings_any_state(bks, room, exclude_booking_id) ==
    ExcludeBooking({i \in Ids : bks[i] # NoBooking /\ bks[i].room = room},
                   exclude_booking_id)

existing_bookings(bks, room, exclude_booking_id) ==
    ExcludeBooking(FilterRoomNew(bks, room), exclude_booking_id)

\* DatesOverlap with <= and >=: closed intervals
DatesOverlapClosed(checkin, checkout, existing_booking) ==
    checkin <= existing_booking.checkout /\ checkout >= existing_booking.checkin

\* DatesOverlap with <= in its first comparison only
DatesOverlapHalfClosed(checkin, checkout, existing_booking) ==
    checkin <= existing_booking.checkout /\ checkout > existing_booking.checkin

\* DatesOverlap with a guard that lets an empty range overlap nothing
DatesOverlapNonEmpty(checkin, checkout, existing_booking) ==
    /\ checkin < checkout
    /\ checkin < existing_booking.checkout /\ checkout > existing_booking.checkin

\* DatesOverlap that sees only a new range lying inside the existing booking
DatesOverlapContained(checkin, checkout, existing_booking) ==
    checkin >= existing_booking.checkin /\ checkout <= existing_booking.checkout

\* checkin < existing_booking.checkout and checkout > existing_booking.checkin
DatesOverlap(checkin, checkout, existing_booking) ==
    checkin < existing_booking.checkout /\ checkout > existing_booking.checkin

\* The orders in which the database may hand out rows: no order_by is given.
Orders(S) ==
    {s \in [1..Cardinality(S) -> S] : \A i, j \in 1..Cardinality(S) : s[i] = s[j] => i = j}

\* for existing_booking in existing_bookings: if overlap: return False ... return True
RECURSIVE AvailabilityLoop(_, _, _, _)
AvailabilityLoop(bks, order, checkin, checkout) ==
    IF order = <<>> THEN TRUE
    ELSE IF DatesOverlap(checkin, checkout, bks[Head(order)]) THEN FALSE
    ELSE AvailabilityLoop(bks, Tail(order), checkin, checkout)

\* order: the order in which the database hands out the rows of the table
check_room_availability(bks, order, room, checkin, checkout, exclude_booking_id) ==
    LET queryset == existing_bookings(bks, room, exclude_booking_id)
    IN AvailabilityLoop(bks, SelectSeq(order, LAMBDA i : i \in queryset),
                        checkin, checkout)

\* ------------------------------------------------- calculate_booking_total
Returned(v) == [ok |-> TRUE, value |-> v]
Raised(e) == [ok |-> FALSE, raised |-> e]

\* nights = (checkout - checkin).days, outside the try block
Nights(checkin, checkout) ==
    IF checkin = NoDate \/ checkout = NoDate THEN Raised("TypeError")
    ELSE Returned(checkout - checkin)

\* PriceLookup without the except clause of line 57
PriceLookupNoExcept(room, nights) ==
    CASE room.kind \in {"no_room_type_attr", "room_type_none", "no_price_attr",
                        "price_raises_attr"} -> Returned(nights * DefaultPrice)
      [] room.kind = "price"             -> Returned(nights * room.price)
      [] room.kind = "price_none"        -> Raised("TypeError")
      [] room.kind = "price_raises_type" -> Raised("TypeError")

\* PriceLookup that never reads the room type's price
PriceLookupDefaultOnly(room, nights) == Returned(nights * DefaultPrice)

\* the try block, lines 48-59:
\*   no_room_type_attr  hasattr(booking.room, 'room_type') is False
\*   room_type_none     booking.room.room_type is None
\*   no_price_attr      hasattr(room_type, 'price') is False
\*   price_raises_attr  reading price raises AttributeError, so hasattr is False
\*   price              a numeric price
\*   price_none         price is None: nights * None raises TypeError
\*   price_raises_type  reading price raises TypeError
PriceLookup(room, nights) ==
    CASE room.kind = "no_room_type_attr" -> Returned(nights * DefaultPrice)
      [] room.kind = "room_type_none"    -> Returned(nights * DefaultPrice)
      [] room.kind = "no_price_attr"     -> Returned(nights * DefaultPrice)
      [] room.kind = "price_raises_attr" -> Returned(nights * DefaultPrice)
      [] room.kind = "price"             -> Returned(nights * room.price)
      [] room.kind = "price_none"        -> Returned(nights * ExceptPrice)
      [] room.kind = "price_raises_type" -> Returned(nights * ExceptPrice)

calculate_booking_total(room, checkin, checkout) ==
    LET nights == Nights(checkin, checkout)
    IN IF nights.ok THEN PriceLookup(room, nights.value) ELSE nights

\* ------------------------------------------------------ EditBookingDatesForm
\* form_is_valid that also rejects a checkin equal to today
form_rejects_today(checkin, checkout, now) ==
    /\ checkin # NoDate
    /\ checkout # NoDate
    /\ ~(checkout <= checkin)
    /\ ~(checkin <= now)

\* EditBookingDatesForm.clean plus the two required date fields
form_is_valid(checkin, checkout, now) ==
    /\ checkin # NoDate
    /\ checkout # NoDate
    /\ ~(checkout <= checkin)
    /\ ~(checkin < now)

\* ------------------------------------------------------------------- Init
IdleWorkers ==
    /\ pc = [p \in Procs |-> "idle"]
    /\ req = [p \in Procs |-> NoReq]

Init ==
    /\ bookings = [i \in Ids |-> NoBooking]
    /\ rooms = InitialRooms
    /\ IdleWorkers
    /\ call = NoCall

\* ---------------------------------------------------------------- actions
NextId(bks) == Cardinality({i \in Ids : bks[i] # NoBooking}) + 1

\* BookingView.post: the customer form, then the booking form, then save
BookingView_post(pk, customer_ok, checkin, checkout, state, total) ==
    /\ NextId(bookings) \in Ids
    /\ IF customer_ok /\ pk \in DOMAIN rooms
       THEN bookings' = [bookings EXCEPT ![NextId(bookings)] =
                [room |-> pk, checkin |-> checkin, checkout |-> checkout,
                 state |-> state, total |-> total]]
       ELSE bookings' = bookings
    /\ UNCHANGED <<rooms, pc, req, call>>

\* DeleteBookingView_post as a hard delete: filter(id=pk).delete()
DeleteBookingView_post_hard(pk) ==
    /\ bookings' = [i \in Ids |-> IF i = pk THEN NoBooking ELSE bookings[i]]
    /\ UNCHANGED <<rooms, pc, req, call>>

\* DeleteBookingView.post: Booking.objects.filter(id=pk).update(state="DEL")
DeleteBookingView_post(pk) ==
    /\ bookings' = [i \in Ids |->
            IF i = pk /\ bookings[i] # NoBooking
            THEN [bookings[i] EXCEPT !.state = "DEL"]
            ELSE bookings[i]]
    /\ UNCHANGED <<rooms, pc, req, call>>

InFlight(p) == pc[p] \in {"check", "save"}

\* EditBookingDatesView.get: a cancelled booking gets the error message and
\* the redirect home, any other stored booking the edit form
EditBookingDatesView_get(p, pk) ==
    /\ ~InFlight(p)
    /\ pc' = [pc EXCEPT ![p] = IF ~Exists(bookings, pk) THEN "Http404"
                               ELSE IF bookings[pk].state = "DEL" THEN "cancelled_message"
                               ELSE "form"]
    /\ req' = [req EXCEPT ![p] = NoReq]
    /\ UNCHANGED <<bookings, rooms, call>>

\* EditBookingDatesView.post, lines 224-229: load the booking, bind and
\* validate the form (which writes the cleaned dates into the instance)
\* now: datetime.now().date() as the request reads it
EditLoad(p, pk, checkin, checkout, now) ==
    /\ ~InFlight(p)
    /\ IF ~Exists(bookings, pk)
       THEN pc' = [pc EXCEPT ![p] = "Http404"] /\ req' = [req EXCEPT ![p] = NoReq]
       ELSE IF ~form_is_valid(checkin, checkout, now)
       THEN \* line 248 reads error_message, which post never assigned
            pc' = [pc EXCEPT ![p] = "UnboundLocalError"] /\ req' = [req EXCEPT ![p] = NoReq]
       ELSE /\ pc' = [pc EXCEPT ![p] = "check"]
            /\ req' = [req EXCEPT ![p] =
                 [pk |-> pk, new_checkin |-> checkin, new_checkout |-> checkout,
                  booking |-> [bookings[pk] EXCEPT !.checkin = checkin,
                                                   !.checkout = checkout]]]
    /\ UNCHANGED <<bookings, rooms, call>>

\* lines 232-237 and 242-243: the availability query, then the new total
EditCheck(p) ==
    /\ pc[p] = "check"
    /\ \E order \in Orders(Ids) :
       IF check_room_availability(bookings, order, req[p].booking.room,
                                  req[p].new_checkin, req[p].new_checkout, req[p].pk)
       THEN LET total == calculate_booking_total(rooms[req[p].booking.room],
                                         req[p].new_checkin, req[p].new_checkout)
            IN IF total.ok
               THEN /\ pc' = [pc EXCEPT ![p] = "save"]
                    /\ req' = [req EXCEPT ![p].booking.total = total.value]
               ELSE /\ pc' = [pc EXCEPT ![p] = total.raised]
                    /\ req' = [req EXCEPT ![p] = NoReq]
       ELSE /\ pc' = [pc EXCEPT ![p] = "error_message"]
            /\ req' = [req EXCEPT ![p] = NoReq]
    /\ UNCHANGED <<bookings, rooms, call>>

\* EditSave that first repeats the availability query, as under a room lock
EditSaveIfStillAvailable(p) ==
    /\ pc[p] = "save"
    /\ \A order \in Orders(Ids) :
          check_room_availability(bookings, order, req[p].booking.room,
                                  req[p].new_checkin, req[p].new_checkout, req[p].pk)
    /\ bookings' = [bookings EXCEPT ![req[p].pk] = req[p].booking]
    /\ pc' = [pc EXCEPT ![p] = "redirect"]
    /\ req' = [req EXCEPT ![p] = NoReq]
    /\ UNCHANGED <<rooms, call>>

\* EditSave that writes the dates and leaves the stored total
EditSaveDatesOnly(p) ==
    /\ pc[p] = "save"
    /\ bookings' = [bookings EXCEPT ![req[p].pk].checkin = req[p].booking.checkin,
                                    ![req[p].pk].checkout = req[p].booking.checkout]
    /\ pc' = [pc EXCEPT ![p] = "redirect"]
    /\ req' = [req EXCEPT ![p] = NoReq]
    /\ UNCHANGED <<rooms, call>>

\* lines 238-241: updated_booking.save() writes every field of the instance
EditSave(p) ==
    /\ pc[p] = "save"
    /\ bookings' = [bookings EXCEPT ![req[p].pk] = req[p].booking]
    /\ pc' = [pc EXCEPT ![p] = "redirect"]
    /\ req' = [req EXCEPT ![p] = NoReq]
    /\ UNCHANGED <<rooms, call>>

Next ==
    \/ \E pk \in (1..HotelRooms) \cup {NoRoom}, customer_ok \in BOOLEAN, checkin \in Dates,
          checkout \in Dates, state \in States, total \in PostedTotals :
          BookingView_post(pk, customer_ok, checkin, checkout, state, total)
    \/ \E pk \in Ids : DeleteBookingView_post(pk)
    \/ \E p \in Procs, pk \in Ids : EditBookingDatesView_get(p, pk)
    \/ \E p \in Procs, pk \in Ids, checkin \in Dates, checkout \in Dates, now \in Dates :
          EditLoad(p, pk, checkin, checkout, now)
    \/ \E p \in Procs : EditCheck(p)
    \/ \E p \in Procs : EditSave(p)

Spec == Init /\ [][Next]_vars

\* ------------------------------------- check_room_availability on its own
\* Every table of at most MaxBookings bookings over NumRooms rooms: ids are
\* handed out in sequence and no row is ever removed.
Rows ==
    [room : Rooms, checkin : Dates, checkout : Dates, state : States,
     total : PostedTotals]

Tables ==
    {t \in [Ids -> Rows \cup {NoBooking}] :
        \A i \in Ids : t[i] # NoBooking => \A j \in 1..i : t[j] # NoBooking}

\* None, the falsy 0, every id a row can have, and an id no row has
ExcludeIds == {NoId} \cup (0..(MaxBookings + 1))

InitAvail ==
    /\ bookings \in Tables
    /\ rooms = [r \in Rooms |-> [kind |-> "room_type_none"]]
    /\ IdleWorkers
    /\ call = NoCall

\* result = check_room_availability(room, checkin, checkout, exclude_booking_id)
CallAvailability(room, checkin, checkout, exclude_booking_id, order) ==
    /\ call = NoCall
    /\ call' = [fn |-> "check_room_availability", room |-> room,
                checkin |-> checkin, checkout |-> checkout,
                exclude_booking_id |-> exclude_booking_id,
                result |-> check_room_availability(bookings, order, room, checkin,
                                                   checkout, exclude_booking_id)]
    /\ UNCHANGED <<bookings, rooms, pc, req>>

NextAvail ==
    \E room \in Rooms, checkin \in Dates, checkout \in Dates,
       exclude_booking_id \in ExcludeIds, order \in Orders(Ids) :
       CallAvailability(room, checkin, checkout, exclude_booking_id, order)

SpecAvail == InitAvail /\ [][NextAvail]_vars

\* ------------------------------------- calculate_booking_total on its own
\* One booking, of any room; every room has any of the pricing shapes.
InitTotal ==
    /\ rooms \in [Rooms -> PricingKinds]
    /\ \E r \in Rooms :
          bookings = [i \in Ids |->
              IF i = 1 THEN [room |-> r, checkin |-> 0, checkout |-> 1,
                             state |-> "NEW", total |-> 0]
                       ELSE NoBooking]
    /\ IdleWorkers
    /\ call = NoCall

\* CallTotal that also stores the total on the booking: booking.total = total
CallTotalStoring(id, checkin, checkout) ==
    /\ call = NoCall
    /\ Exists(bookings, id)
    /\ LET result == calculate_booking_total(rooms[bookings[id].room], checkin, checkout)
       IN /\ call' = [fn |-> "calculate_booking_total", booking |-> id,
                      checkin |-> checkin, checkout |-> checkout, result |-> result]
          /\ bookings' = [bookings EXCEPT ![id].total =
                              IF result.ok THEN result.value ELSE @]
    /\ UNCHANGED <<rooms, pc, req>>

\* result = calculate_booking_total(booking, checkin, checkout)
CallTotal(id, checkin, checkout) ==
    /\ call = NoCall
    /\ Exists(bookings, id)
    /\ call' = [fn |-> "calculate_booking_total", booking |-> id,
                checkin |-> checkin, checkout |-> checkout,
                result |-> calculate_booking_total(rooms[bookings[id].room],
                                                   checkin, checkout)]
    /\ UNCHANGED <<bookings, rooms, pc, req>>

NextTotal ==
    \E id \in Ids, checkin \in Dates \cup {NoDate}, checkout \in Dates \cup {NoDate} :
       CallTotal(id, checkin, checkout)

SpecTotal == InitTotal /\ [][NextTotal]_vars

\* --------------------------------------------- requests served one at a time
\* A single worker serves the requests: a date edit runs from its load to its
\* save, and a cancellation runs, only while no other request is in flight.
\* The start is any table whose bookings have checkin < checkout and whose NEW
\* bookings of one room do not overlap.
NoneInFlight == \A q \in Procs : ~InFlight(q)

InitSeq ==
    /\ bookings \in {t \in Tables :
          /\ \A i \in Ids : t[i] # NoBooking => t[i].checkin < t[i].checkout
          /\ \A i, j \in Ids :
                (/\ i # j /\ t[i] # NoBooking /\ t[j] # NoBooking
                 /\ t[i].room = t[j].room /\ t[i].state = "NEW" /\ t[j].state = "NEW")
                => ~DatesOverlap(t[i].checkin, t[i].checkout, t[j])}
    /\ rooms = [r \in Rooms |-> IF r = 1 THEN [kind |-> "room_type_none"]
                                         ELSE [kind |-> "price", price |-> MaxPrice]]
    /\ IdleWorkers
    /\ call = NoCall

SeqEditLoad(p, pk, checkin, checkout, now) ==
    NoneInFlight /\ EditLoad(p, pk, checkin, checkout, now)

SeqDelete(pk) == NoneInFlight /\ DeleteBookingView_post(pk)

NextSeq ==
    \/ \E p \in Procs, pk \in Ids, checkin \in Dates, checkout \in Dates, now \in Dates :
          SeqEditLoad(p, pk, checkin, checkout, now)
    \/ \E p \in Procs : EditCheck(p)
    \/ \E p \in Procs : EditSave(p)
    \/ \E pk \in Ids : SeqDelete(pk)

SpecSeq == InitSeq /\ [][NextSeq]_vars

\* ------------------------------------------- the two functions side by side
\* Any table of bookings; room 1 has no room type, the other rooms a priced one.
InitCore ==
    /\ bookings \in Tables
    /\ rooms = [r \in Rooms |-> IF r = 1 THEN [kind |-> "room_type_none"]
                                         ELSE [kind |-> "price", price |-> MaxPrice]]
    /\ IdleWorkers
    /\ call = NoCall

NextCore == NextAvail \/ NextTotal

SpecCore == InitCore /\ [][NextCore]_vars

\* ---------------------------------------------------- RoomSearchView.post
\* filter(room_type__max_guests__gte=guests): a room without a room type has
\* no max_guests to compare and is never listed
GuestsFit(room, guests) ==
    /\ "max_guests" \in DOMAIN room
    /\ room.max_guests >= guests

\* SearchExcluded with the lookups turned round: it matches only bookings
\* that lie inside the stay (checkin__gte=checkin, checkout__lte=checkout)
SearchExcludedInside(bks, r, checkin, checkout) ==
    LET of_room == {i \in Ids : bks[i] # NoBooking /\ bks[i].room = r}
    IN /\ \E i \in of_room : bks[i].checkin >= checkin
       /\ \E i \in of_room : bks[i].checkout <= checkout
       /\ \E i \in of_room : bks[i].state = "NEW"

\* exclude(booking__checkin__lte=checkout, booking__checkout__gte=checkin,
\*         booking__state__exact="NEW")
\* The conditions of one exclude() call over a multi-valued relation need not
\* refer to the same booking: a room is excluded when it has a booking for
\* each of the three conditions.
SearchExcluded(bks, r, checkin, checkout) ==
    LET of_room == {i \in Ids : bks[i] # NoBooking /\ bks[i].room = r}
    IN /\ \E i \in of_room : bks[i].checkin <= checkout
       /\ \E i \in of_room : bks[i].checkout >= checkin
       /\ \E i \in of_room : bks[i].state = "NEW"

\* the rooms of the rendered result list
RoomSearchView_post(bks, rms, checkin, checkout, guests) ==
    {r \in DOMAIN rms : /\ GuestsFit(rms[r], guests)
                        /\ ~SearchExcluded(bks, r, checkin, checkout)}

\* A room has no room type, or a room type with a price and a capacity.
SearchRooms ==
    {[kind |-> "room_type_none"]}
    \cup {[kind |-> "price", price |-> MaxPrice, max_guests |-> g] : g \in 1..MaxGuests}

InitSearch ==
    /\ bookings \in Tables
    /\ rooms \in [Rooms -> SearchRooms]
    /\ IdleWorkers
    /\ call = NoCall

\* the POST of the search form with its three fields
CallSearch(checkin, checkout, guests) ==
    /\ call = NoCall
    /\ call' = [fn |-> "RoomSearchView.post", checkin |-> checkin,
                checkout |-> checkout, guests |-> guests,
                rooms |-> RoomSearchView_post(bookings, rooms, checkin, checkout, guests)]
    /\ UNCHANGED <<bookings, rooms, pc, req>>

NextSearch ==
    \E checkin \in Dates, checkout \in Dates, guests \in 1..MaxGuests :
       CallSearch(checkin, checkout, guests)

SpecSearch == InitSearch /\ [][NextSearch]_vars

\* ---------------------------------------- EditBookingDatesForm on its own
\* The form bound to a stored booking, as the view binds it: any one booking.
InitForm ==
    /\ \E row \in Rows : bookings = [i \in Ids |-> IF i = 1 THEN row ELSE NoBooking]
    /\ rooms = [r \in Rooms |-> [kind |-> "room_type_none"]]
    /\ IdleWorkers
    /\ call = NoCall

\* result = EditBookingDatesForm(data, instance=booking).is_valid()
\* now: datetime.now().date() as clean reads it
CallForm(id, checkin, checkout, now) ==
    /\ call = NoCall
    /\ Exists(bookings, id)
    /\ call' = [fn |-> "EditBookingDatesForm.is_valid", instance |-> id,
                checkin |-> checkin, checkout |-> checkout, today |-> now,
                result |-> form_is_valid(checkin, checkout, now)]
    /\ UNCHANGED <<bookings, rooms, pc, req>>

NextForm ==
    \E id \in Ids, checkin \in Dates \cup {NoDate}, checkout \in Dates \cup {NoDate},
       now \in Dates :
       CallForm(id, checkin, checkout, now)

SpecForm == InitForm /\ [][NextForm]_vars

\* ================================================================== claims
AvailCalled == call # NoCall /\ call.fn = "check_room_availability"

\* The claims' own wording of an active booking of the room that is not the
\* excluded one, and of a conflict with the range of the call.
ActiveOther(i) ==
    /\ bookings[i] # NoBooking
    /\ bookings[i].room = call.room
    /\ bookings[i].state = "NEW"
    /\ i # call.exclude_booking_id

Conflicts(i) ==
    call.checkin < bookings[i].checkout /\ call.checkout > bookings[i].checkin

Recheck(bks, order) ==
    check_room_availability(bks, order, call.room, call.checkin, call.checkout,
                            call.exclude_booking_id)

OnlyRoom(bks, room) ==
    [i \in Ids |-> IF bks[i] # NoBooking /\ bks[i].room = room THEN bks[i] ELSE NoBooking]

WithoutCancelled(bks) ==
    [i \in Ids |-> IF bks[i] # NoBooking /\ bks[i].state = "DEL" THEN NoBooking ELSE bks[i]]

\* C1: for a range with checkin < checkout, check_room_availability returns
\* False exactly when some NEW booking of the same room, with an id other than
\* exclude_booking_id, has checkin < its checkout and checkout > its checkin;
\* the bookings of other rooms and the order of iteration do not matter.
C1_AvailabilityIffNoConflict ==
    (AvailCalled /\ call.checkin < call.checkout) =>
        /\ call.result = ~(\E i \in Ids : ActiveOther(i) /\ Conflicts(i))
        /\ \A order \in Orders(Ids) :
              /\ Recheck(bookings, order) = call.result
              /\ Recheck(OnlyRoom(bookings, call.room), order) = call.result

\* a refused range, with a booking of another room in the table that conflicts
C1_Witness ==
    /\ AvailCalled
    /\ call.checkin < call.checkout
    /\ call.result = FALSE
    /\ \E i \in Ids : bookings[i] # NoBooking /\ bookings[i].room # call.room
                        /\ bookings[i].state = "NEW" /\ Conflicts(i)

\* C4: back-to-back stays are not a conflict: a range that ends on an active
\* booking's checkin, or starts on its checkout, is available when no other
\* active booking of the room conflicts with it.
Adjacent(i) ==
    call.checkout = bookings[i].checkin \/ call.checkin = bookings[i].checkout

C4_BackToBackAvailable ==
    (AvailCalled /\ call.checkin < call.checkout) =>
        \A i \in Ids :
            (/\ ActiveOther(i)
             /\ Adjacent(i)
             /\ \A j \in Ids \ {i} : ActiveOther(j) => ~Conflicts(j))
            => call.result = TRUE

\* an accepted range that touches an active booking with checkin < checkout
C4_Witness ==
    /\ AvailCalled
    /\ call.checkin < call.checkout
    /\ call.result = TRUE
    /\ \E i \in Ids : ActiveOther(i) /\ Adjacent(i)
                        /\ bookings[i].checkin < bookings[i].checkout

\* C5: a DEL booking never makes check_room_availability return False: the
\* result on a table equals the result on the table without its DEL bookings.
C5_CancelledInvisible ==
    AvailCalled =>
        \A order \in Orders(Ids) : Recheck(WithoutCancelled(bookings), order) = call.result

\* an accepted range that a cancelled booking of the room conflicts with
C5_Witness ==
    /\ AvailCalled
    /\ call.checkin < call.checkout
    /\ call.result = TRUE
    /\ \E i \in Ids : /\ bookings[i] # NoBooking
                        /\ bookings[i].room = call.room
                        /\ bookings[i].state = "DEL"
                        /\ bookings[i].checkin < bookings[i].checkout
                        /\ Conflicts(i)

\* C6: self-exclusion: with exclude_booking_id = X, the id of a stored
\* booking, the result is True whenever X is the only active booking of the
\* room that conflicts with the range.
ActiveInRoom(i) ==
    bookings[i] # NoBooking /\ bookings[i].room = call.room /\ bookings[i].state = "NEW"

C6_SelfExclusion ==
    (AvailCalled /\ call.exclude_booking_id \in Ids
                 /\ bookings[call.exclude_booking_id] # NoBooking) =>
        ((\A i \in Ids : (ActiveInRoom(i) /\ Conflicts(i)) <=> i = call.exclude_booking_id)
            => call.result = TRUE)

\* the excluded booking conflicts, next to another active booking of the room
C6_Witness ==
    /\ AvailCalled
    /\ call.checkin < call.checkout
    /\ call.exclude_booking_id \in Ids
    /\ ActiveInRoom(call.exclude_booking_id)
    /\ Conflicts(call.exclude_booking_id)
    /\ \E j \in Ids \ {call.exclude_booking_id} : ActiveInRoom(j)
    /\ call.result = TRUE

\* ------------------------------------------------------------------------
\* Two half-open intervals [a, b) and [c, d) share a night.
SharesNight(a, b, c, d) == \E n \in Dates : a <= n /\ n < b /\ c <= n /\ n < d

DoubleBooked(bks) ==
    \E i, j \in Ids :
        /\ i # j
        /\ bks[i] # NoBooking /\ bks[j] # NoBooking
        /\ bks[i].room = bks[j].room
        /\ bks[i].state = "NEW" /\ bks[j].state = "NEW"
        /\ SharesNight(bks[i].checkin, bks[i].checkout, bks[j].checkin, bks[j].checkout)

\* C2: after any sequence of BookingView.post, EditBookingDatesView.post and
\* DeleteBookingView.post, no two NEW bookings of one room have overlapping
\* half-open intervals [checkin, checkout).
C2_NoDoubleBooking == ~DoubleBooked(bookings)

\* C3: two concurrent date edits of two different active bookings of one
\* room, with overlapping new ranges, can both pass the availability check
\* before either saves; nothing then stops the two saves, and after them two
\* NEW bookings of the room overlap.
NewRange(p) == <<req[p].new_checkin, req[p].new_checkout>>

\* p has passed the check and a stored active booking of the room now conflicts
PendingConflict(p) ==
    /\ pc[p] = "save"
    /\ req[p].booking.state = "NEW"
    /\ \E i \in Ids \ {req[p].pk} :
          /\ bookings[i] # NoBooking
          /\ bookings[i].room = req[p].booking.room
          /\ bookings[i].state = "NEW"
          /\ SharesNight(NewRange(p)[1], NewRange(p)[2],
                         bookings[i].checkin, bookings[i].checkout)

\* p and q have both passed the check and neither has saved
RaceWindow(p, q) ==
    /\ p # q
    /\ pc[p] = "save" /\ pc[q] = "save"
    /\ req[p].pk # req[q].pk
    /\ req[p].booking.room = req[q].booking.room
    /\ req[p].booking.state = "NEW" /\ req[q].booking.state = "NEW"
    /\ bookings[req[p].pk].state = "NEW" /\ bookings[req[q].pk].state = "NEW"
    /\ SharesNight(NewRange(p)[1], NewRange(p)[2], NewRange(q)[1], NewRange(q)[2])

C3_RaceDoubleBooks ==
    /\ \A p, q \in Procs :
          RaceWindow(p, q) => ENABLED (EditSave(p) /\ PendingConflict(q)')
    /\ \A p \in Procs :
          PendingConflict(p) => ENABLED (EditSave(p) /\ DoubleBooked(bookings'))

\* both edits are past the check while the table is still free of overlaps
C3_Witness ==
    /\ ~DoubleBooked(bookings)
    /\ \A i \in Ids : bookings[i] # NoBooking /\ bookings[i].checkin < bookings[i].checkout
    /\ \E p, q \in Procs : RaceWindow(p, q)

\* C7: a date edit whose form is invalid, or for which
\* check_room_availability returns False, persists nothing and answers with
\* the error message, not with a redirect.
Unavailable(p) ==
    \E order \in Orders(Ids) :
        ~check_room_availability(bookings, order, req[p].booking.room,
                                 req[p].new_checkin, req[p].new_checkout, req[p].pk)

C7_RejectedEditPersistsNothing ==
    [][/\ \A p \in Procs, pk \in Ids, checkin \in Dates, checkout \in Dates, now \in Dates :
            (/\ Exists(bookings, pk)
             /\ ~form_is_valid(checkin, checkout, now)
             /\ EditLoad(p, pk, checkin, checkout, now))
            => (bookings' = bookings /\ pc'[p] = "error_message")
       /\ \A p \in Procs :
            (pc[p] = "check" /\ Unavailable(p) /\ EditCheck(p))
            => (bookings' = bookings /\ pc'[p] = "error_message")]_vars

\* C8: a date edit with valid dates for which check_room_availability, called
\* with exclude_booking_id = the booking's id, returns True stores the
\* submitted checkin and checkout and the total calculate_booking_total gives
\* for them; the check comes before the total and before the save, and no
\* other booking is modified.
Available(p) ==
    \A order \in Orders(Ids) :
        check_room_availability(bookings, order, req[p].booking.room,
                                req[p].new_checkin, req[p].new_checkout, req[p].pk)

C8_AcceptedEditStoresDatesAndTotal ==
    [][\A p \in Procs :
        \* the request enters the availability query with the cleaned dates
        /\ (pc'[p] = "check" /\ pc[p] # "check")
            => /\ bookings' = bookings
               /\ req'[p].new_checkin < req'[p].new_checkout
               /\ Exists(bookings, req'[p].pk)
        \* an available range goes on to the save, with nothing written yet
        /\ (pc[p] = "check" /\ pc'[p] # "check" /\ Available(p))
            => (bookings' = bookings /\ pc'[p] = "save" /\ req'[p].pk = req[p].pk
                /\ NewRange(p)' = NewRange(p))
        \* the save is reached only through the check
        /\ (pc'[p] = "save" /\ pc[p] # "save") => (pc[p] = "check" /\ Available(p))
        \* the save stores the dates and the total, and touches no other row
        /\ (pc[p] = "save" /\ pc'[p] # "save")
            => /\ pc'[p] = "redirect"
               /\ bookings'[req[p].pk].checkin = req[p].new_checkin
               /\ bookings'[req[p].pk].checkout = req[p].new_checkout
               /\ bookings'[req[p].pk].total =
                     calculate_booking_total(rooms[bookings[req[p].pk].room],
                                             req[p].new_checkin, req[p].new_checkout).value
               /\ \A i \in Ids \ {req[p].pk} : bookings'[i] = bookings[i]
        \* a request writes at no other step
        /\ (bookings' # bookings /\ pc'[p] # pc[p]) => pc[p] = "save"]_vars

\* an accepted edit has answered with the redirect and its booking holds a
\* recomputed total
C8_Witness ==
    \E p \in Procs, i \in Ids :
        /\ pc[p] = "redirect"
        /\ bookings[i] # NoBooking
        /\ bookings[i].checkin < bookings[i].checkout
        /\ bookings[i].total # 0
        /\ bookings[i].total =
              calculate_booking_total(rooms[bookings[i].room], bookings[i].checkin,
                                      bookings[i].checkout).value

\* ------------------------------------------------------------------------
TotalCalled == call # NoCall /\ call.fn = "calculate_booking_total"

CalledRoom == rooms[bookings[call.booking].room]

BothDates == call.checkin # NoDate /\ call.checkout # NoDate

\* C9: calculate_booking_total does not raise and returns nights * 100.00 when
\* the room has no room_type attribute, its room_type is None, the room type
\* has no price attribute, or reading or multiplying the price raises
\* AttributeError or TypeError.
C9_PricingFallback ==
    (TotalCalled /\ BothDates /\ CalledRoom.kind # "price") =>
        /\ call.result.ok
        /\ call.result.value = (call.checkout - call.checkin) * 100

\* a stay of two nights in a room whose room type has price None
C9_Witness ==
    /\ TotalCalled
    /\ BothDates
    /\ CalledRoom.kind = "price_none"
    /\ call.checkout - call.checkin = 2
    /\ call.result = Returned(200)

\* C10: with a numeric nightly price p the total is exactly nights * p, so at
\* a fixed rate twice the nights cost twice the total, and at a non-negative
\* rate a longer stay never costs less than a shorter one.
TotalOfStay(checkin, checkout) == calculate_booking_total(CalledRoom, checkin, checkout)

C10_PricingLinear ==
    (TotalCalled /\ BothDates /\ CalledRoom.kind = "price") =>
        /\ call.result = Returned((call.checkout - call.checkin) * CalledRoom.price)
        /\ \A ci \in Dates, co \in Dates :
              /\ (co - ci = 2 * (call.checkout - call.checkin))
                    => TotalOfStay(ci, co) = Returned(2 * call.result.value)
              /\ (CalledRoom.price >= 0 /\ co - ci >= call.checkout - call.checkin)
                    => TotalOfStay(ci, co).value >= call.result.value

\* one night at a price that is neither 0 nor the default rate, with a stay
\* of twice the nights in range
C10_Witness ==
    /\ TotalCalled
    /\ BothDates
    /\ CalledRoom.kind = "price"
    /\ CalledRoom.price > 0
    /\ call.checkout - call.checkin = 1
    /\ call.result = Returned(CalledRoom.price)
    /\ \E ci \in Dates, co \in Dates : co - ci = 2

\* ------------------------------------------------------------------------
FormCalled == call # NoCall /\ call.fn = "EditBookingDatesForm.is_valid"

\* C11: EditBookingDatesForm, given both a checkin and a checkout date, is
\* valid exactly when checkout > checkin and checkin >= today: a checkout on
\* or before the checkin is rejected, a checkin before today is rejected and
\* a checkin equal to today is accepted.
C11_FormValidIffOrderedAndNotPast ==
    (FormCalled /\ call.checkin # NoDate /\ call.checkout # NoDate) =>
        /\ call.result = (call.checkout > call.checkin /\ call.checkin >= call.today)
        /\ (call.checkout <= call.checkin) => ~call.result
        /\ (call.checkin < call.today) => ~call.result
        /\ (call.checkin = call.today /\ call.checkout > call.checkin) => call.result

\* a checkin equal to today, after day 0, is accepted
C11_Witness ==
    /\ FormCalled
    /\ call.today > 0
    /\ call.checkin = call.today
    /\ call.checkout > call.checkin
    /\ call.result = TRUE

\* ------------------------------------------------------------------------
\* C12: after any sequence of BookingView.post, EditBookingDatesView.post and
\* DeleteBookingView.post, every stored booking has checkin < checkout.
C12_StoredIntervalsOrdered ==
    \A i \in Ids : bookings[i] # NoBooking => bookings[i].checkin < bookings[i].checkout

\* C13: DeleteBookingView.post is a soft delete: it sets the state of the
\* booking with the given id to DEL, removes no row, leaves that booking's
\* room, dates and total and every other booking unchanged, changes nothing
\* when no booking has that id, and leaves the state of an already cancelled
\* booking unchanged.
C13_CancelIsSoftDelete ==
    [][\A pk \in Ids :
        DeleteBookingView_post(pk) =>
            /\ \A i \in Ids : (bookings'[i] = NoBooking) <=> (bookings[i] = NoBooking)
            /\ \A i \in Ids \ {pk} : bookings'[i] = bookings[i]
            /\ bookings[pk] = NoBooking => bookings' = bookings
            /\ bookings[pk] # NoBooking =>
                  /\ bookings'[pk].state = "DEL"
                  /\ bookings'[pk].room = bookings[pk].room
                  /\ bookings'[pk].checkin = bookings[pk].checkin
                  /\ bookings'[pk].checkout = bookings[pk].checkout
                  /\ bookings'[pk].total = bookings[pk].total
                  /\ bookings[pk].state = "DEL" => bookings'[pk].state = bookings[pk].state
            /\ UNCHANGED <<rooms, pc, req>>]_vars

\* an active booking with a recomputed total, next to another active booking,
\* can be cancelled, and afterwards it is stored as DEL
C13_Witness ==
    \E pk \in Ids, j \in Ids :
        /\ j # pk
        /\ bookings[pk] # NoBooking /\ bookings[j] # NoBooking
        /\ bookings[pk].state = "NEW" /\ bookings[j].state = "NEW"
        /\ bookings[pk].total # 0
        /\ ENABLED (DeleteBookingView_post(pk) /\ bookings'[pk].state = "DEL"
                                               /\ bookings'[j].state = "NEW")

\* ------------------------------------------------------------------------
\* The table that holds one active booking [c, d) of the room.
SingleBooking(room, c, d) ==
    [i \in Ids |-> IF i = 1 THEN [room |-> room, checkin |-> c, checkout |-> d,
                                  state |-> "NEW", total |-> 0]
                            ELSE NoBooking]

\* The verdict of testing the new range [a, b) against an existing [c, d).
ConflictVerdict(a, b, c, d, order) ==
    ~check_room_availability(SingleBooking(call.room, c, d), order, call.room, a, b, NoId)

\* C14: the overlap test of check_room_availability is symmetric: for
\* intervals [a, b) and [c, d) with a < b and c < d, testing the new range
\* [a, b) against an existing booking [c, d) gives the same verdict as testing
\* [c, d) against an existing booking [a, b).
C14_OverlapSymmetric ==
    (AvailCalled /\ call.checkin < call.checkout) =>
        \A i \in Ids, order \in Orders(Ids) :
            (ActiveOther(i) /\ bookings[i].checkin < bookings[i].checkout) =>
                /\ ConflictVerdict(call.checkin, call.checkout,
                                   bookings[i].checkin, bookings[i].checkout, order)
                   = ConflictVerdict(bookings[i].checkin, bookings[i].checkout,
                                     call.checkin, call.checkout, order)
                /\ (\A j \in Ids \ {i} : ~ActiveOther(j)) =>
                      call.result = ~ConflictVerdict(call.checkin, call.checkout,
                                        bookings[i].checkin, bookings[i].checkout, order)

\* a refused range that ends inside the room's only active booking and starts
\* before it
C14_Witness ==
    /\ AvailCalled
    /\ call.checkin < call.checkout
    /\ call.result = FALSE
    /\ \E i \in Ids :
          /\ ActiveOther(i)
          /\ \A j \in Ids \ {i} : ~ActiveOther(j)
          /\ call.checkin < bookings[i].checkin
          /\ bookings[i].checkin < call.checkout
          /\ call.checkout <= bookings[i].checkout

\* ------------------------------------------------------------------------
Degenerate == AvailCalled /\ call.checkin = call.checkout

\* active booking i of the room starts before the day of the call and ends
\* after it
StrictlyAround(i) ==
    bookings[i].checkin < call.checkin /\ call.checkin < bookings[i].checkout

\* C15: for a degenerate range with checkin == checkout,
\* check_room_availability raises no error and returns True against any other
\* interval, whatever active bookings the room has.
C15_DegenerateAlwaysAvailable ==
    Degenerate => call.result = TRUE

\* C15, amended: for a degenerate range with checkin == checkout = x,
\* check_room_availability raises no error and returns True exactly when no
\* active booking of the room, other than the excluded one, has
\* checkin < x < checkout.
C15_DegenerateAvailableUnlessInside ==
    Degenerate =>
        /\ call.result \in BOOLEAN
        /\ call.result = ~(\E i \in Ids : ActiveOther(i) /\ StrictlyAround(i))

\* an empty range on the first day of an active booking of the room is available
C15_Witness ==
    /\ Degenerate
    /\ call.result = TRUE
    /\ \E i \in Ids : /\ ActiveOther(i)
                        /\ bookings[i].checkin = call.checkin
                        /\ bookings[i].checkin < bookings[i].checkout

\* ------------------------------------------------------------------------
\* C16: check_room_availability and calculate_booking_total have no side
\* effects: a call of either, with any arguments and any stored bookings,
\* leaves every stored booking (id, room, checkin, checkout, state, total) and
\* the booking passed in unchanged, and creates or deletes no booking.
C16_CoreReadsOnly ==
    [][(call' # call) =>
          /\ \A i \in Ids : (bookings'[i] = NoBooking) <=> (bookings[i] = NoBooking)
          /\ \A i \in Ids : bookings[i] # NoBooking =>
                /\ bookings'[i].room = bookings[i].room
                /\ bookings'[i].checkin = bookings[i].checkin
                /\ bookings'[i].checkout = bookings[i].checkout
                /\ bookings'[i].state = bookings[i].state
                /\ bookings'[i].total = bookings[i].total
          /\ rooms' = rooms]_vars

\* a total was computed that differs from the one stored on the booking
C16_Witness ==
    /\ TotalCalled
    /\ call.result.ok
    /\ call.result.value > 0
    /\ call.result.value # bookings[call.booking].total
    /\ \A i \in Ids : bookings[i] # NoBooking

\* ------------------------------------------------------------------------
SearchCalled == call # NoCall /\ call.fn = "RoomSearchView.post"

\* i is the only active booking of room r, and has checkin < checkout
OnlyActiveBooking(r, i) ==
    /\ bookings[i] # NoBooking
    /\ bookings[i].room = r
    /\ bookings[i].state = "NEW"
    /\ bookings[i].checkin < bookings[i].checkout
    /\ \A j \in Ids \ {i} :
          ~(bookings[j] # NoBooking /\ bookings[j].room = r /\ bookings[j].state = "NEW")

\* the stay of the search touches booking i: it checks in on i's checkout day
\* or checks out on i's checkin day
SearchTouches(i) ==
    call.checkin = bookings[i].checkout \/ call.checkout = bookings[i].checkin

\* C17: the room search offers back-to-back stays: a room with sufficient
\* capacity whose only active booking checks out on day D is listed for a
\* stay that checks in on D, and a room whose only active booking checks in
\* on D is listed for a stay that checks out on D, as check_room_availability
\* accepts such a stay.
C17_SearchOffersBackToBack ==
    (SearchCalled /\ call.checkin < call.checkout) =>
        \A r \in Rooms, i \in Ids :
            (/\ GuestsFit(rooms[r], call.guests)
             /\ OnlyActiveBooking(r, i)
             /\ SearchTouches(i))
            => /\ r \in call.rooms
               /\ \A order \in Orders(Ids) :
                     check_room_availability(bookings, order, r, call.checkin,
                                             call.checkout, NoId)

\* ------------------------------------------------------------------------
Cancelled(i) == bookings[i] # NoBooking /\ bookings[i].state = "DEL"

\* C18: cancellation is permanent in every interleaving of requests: once a
\* booking's stored state is DEL, no later step of any request, the save of a
\* date edit that loaded the booking before it was cancelled included, sets
\* its state back to NEW.
C18_CancellationPermanent ==
    [][\A i \in Ids : Cancelled(i) => bookings'[i].state = "DEL"]_vars

\* C19: a cancelled booking cannot be edited: once a booking's state is DEL,
\* no date-edit request, neither the GET that renders the form nor the POST
\* that submits new dates, changes its stored checkin, checkout or total.
C19_CancelledNotEdited ==
    [][\A i \in Ids :
          Cancelled(i) => /\ bookings'[i].checkin = bookings[i].checkin
                          /\ bookings'[i].checkout = bookings[i].checkout
                          /\ bookings'[i].total = bookings[i].total]_vars

\* ------------------------------------------------------------------------
\* C20: when requests run one at a time and the only operations are date
\* edits and cancellations, then from any start in which every booking has
\* checkin < checkout and no two NEW bookings of a room overlap, no reachable
\* state has two NEW bookings of one room with overlapping [checkin, checkout).
C20_SequentialNoDoubleBooking == ~DoubleBooked(bookings)

\* two accepted edits have put two active bookings of one room back to back
C20_Witness ==
    /\ \E p \in Procs : pc[p] = "redirect"
    /\ \E i, j \in Ids :
          /\ bookings[i] # NoBooking /\ bookings[j] # NoBooking
          /\ bookings[i].room = bookings[j].room
          /\ bookings[i].state = "NEW" /\ bookings[j].state = "NEW"
          /\ bookings[i].total # 0 /\ bookings[j].total # 0
          /\ bookings[i].checkout = bookings[j].checkin

\* ------------------------------------------------------------------------
\* booking i of room r shares a night with the stay of the search
OverlapsStay(r, i) ==
    /\ bookings[i] # NoBooking
    /\ bookings[i].room = r
    /\ SharesNight(call.checkin, call.checkout, bookings[i].checkin, bookings[i].checkout)

\* C21: the room search is conservative with respect to the availability
\* check: every room RoomSearchView.post lists for dates with
\* checkin < checkout is a room for which check_room_availability returns
\* True on the same stored bookings, so no listed room has an overlapping
\* active booking.
C21_SearchConservative ==
    (SearchCalled /\ call.checkin < call.checkout) =>
        \A r \in call.rooms :
            /\ \A order \in Orders(Ids) :
                  check_room_availability(bookings, order, r, call.checkin,
                                          call.checkout, NoId)
            /\ ~(\E i \in Ids : OverlapsStay(r, i) /\ bookings[i].state = "NEW")

\* the search lists a room whose only overlapping booking is cancelled and
\* withholds a room of sufficient capacity with an overlapping active booking
C21_Witness ==
    /\ SearchCalled
    /\ call.checkin < call.checkout
    /\ \E r \in call.rooms, i \in Ids :
          OverlapsStay(r, i) /\ bookings[i].state = "DEL"
    /\ \E r \in Rooms \ call.rooms, i \in Ids :
          /\ GuestsFit(rooms[r], call.guests)
          /\ OverlapsStay(r, i) /\ bookings[i].state = "NEW"

====
